---- MODULE Spec2Model ----
(***************************************************************************)
(* Insurance portfolio dashboard: the generator (policies, claims) and the *)
(* SQL / pandas aggregation of insurance_portfolio_sql_dashboard.py.       *)
(*                                                                         *)
(* Money is counted in whole dollars (the drawn premiums and amounts are   *)
(* whole-dollar values of the script's 2-decimal domain); a quotient is    *)
(* kept as the exact fraction num/den; the Poisson rate is kept in         *)
(* ten-thousandths (0.12 is 1200).                                         *)
(***************************************************************************)
EXTENDS Integers, Sequences, FiniteSets, TLC

VARIABLES
    ages, car_types, premiums,   \* the drawn arrays (lines 46-48)
    Policies, Claims,            \* the two tables
    policy_info, claims_rows,    \* fetched policy list, pending claim rows
    i, pid, age, car,            \* claim loop: position and loop variables
    base_lambda, n_claims,       \* claim loop: rate and drawn count
    loss_by_car, age_group_stats, top_policies, portfolio_mix, per_policy,
    summary_metrics,
    pc

vars == <<ages, car_types, premiums, Policies, Claims, policy_info, claims_rows,
          i, pid, age, car, base_lambda, n_claims,
          loss_by_car, age_group_stats, top_policies, portfolio_mix, per_policy,
          summary_metrics, pc>>

---------------------------------------------------------------------------
\* Bounds of the model.

\* N_POLICIES of a small book (the script's 1000, scaled down).
SmallBook == 2
\* N_POLICIES of the largest book: more policies than the top-policies limit.
BigBook == 11
\* Total number of claims drawn in one run (caps the Poisson draws).
MaxClaims == 2

\* Program constants.
AgeLow == 18
AgeHigh == 80
PremiumClipLow == 400
PremiumMean == 1200
SeverityMedian == 7000
TopLimit == 10
BaseRate == 1200

CarTypes == {"Sedan", "SUV", "Truck", "Sports"}
AgeDomain == AgeLow .. (AgeHigh - 1)
PremiumDomain == {PremiumClipLow, PremiumMean}
AmountDomain == {500, SeverityMedian}

\* The order SQLite's BINARY collation gives the car types, ascending.
CarTypesAsc == <<"SUV", "Sedan", "Sports", "Truck">>
CarTypesDesc == <<"Truck", "Sports", "Sedan", "SUV">>

AgeGroupLabels == <<"18-29", "30-39", "40-49", "50-59", "60-69", "70+">>

---------------------------------------------------------------------------
\* Values and helpers.

RECURSIVE SumSeq(_)
SumSeq(s) == IF s = <<>> THEN 0 ELSE Head(s) + SumSeq(Tail(s))

Min(a, b) == IF a < b THEN a ELSE b

\* SQL NULL and a non-null number.
SqlNull == [is_null |-> TRUE, v |-> 0]
SqlVal(x) == [is_null |-> FALSE, v |-> x]

\* SUM over the non-NULL values of a column: NULL when there is none.
SqlSum(vals) == IF vals = <<>> THEN SqlNull ELSE SqlVal(SumSeq(vals))

Coalesce(x, d) == IF x.is_null THEN d ELSE x.v

\* A quotient: a value num/den, SQL NULL, or what a float division by zero gives.
Ratio(n, d) == [kind |-> "value", num |-> n, den |-> d]
RatioNull == [kind |-> "null", num |-> 0, den |-> 1]
RatioNaN == [kind |-> "nan", num |-> 0, den |-> 1]
RatioInf == [kind |-> "inf", num |-> 0, den |-> 1]
RatioError == [kind |-> "ZeroDivisionError", num |-> 0, den |-> 1]

\* CASE WHEN den = 0 THEN NULL ELSE num * 1.0 / den END
GuardedRatio(n, d) == IF d = 0 THEN RatioNull ELSE Ratio(n, d)

\* ORDER BY ... DESC on a quotient column: NULL is the smallest value.
RatioGt(a, b) ==
    IF a.kind = "null" THEN FALSE
    ELSE IF b.kind = "null" THEN TRUE
    ELSE a.num * b.den > b.num * a.den

\* The sorter keeps rows of equal key in their arrival order.  gt is the set of
\* index pairs <<j, k>> with the key of s[j] greater than the key of s[k].
StableSortDesc(s, gt) ==
    LET n == Len(s)
        pos(k) == 1 + Cardinality({j \in 1..n : <<j, k>> \in gt})
                    + Cardinality({j \in 1..(k - 1) :
                                     <<j, k>> \notin gt /\ <<k, j>> \notin gt})
    IN  [r \in 1..n |-> s[CHOOSE k \in 1..n : pos(k) = r]]

\* A set of integers as an ascending sequence.
Ascending(S) ==
    [r \in 1..Cardinality(S) |->
        CHOOSE x \in S : Cardinality({y \in S : y < x}) = r - 1]

---------------------------------------------------------------------------
\* Generator.

PolicyRow(k) ==
    [policy_id |-> k, customer_age |-> ages[k], car_type |-> car_types[k],
     premium |-> premiums[k]]

FetchedRowShifted(p) == <<p.policy_id + 1, p.customer_age, p.car_type>>

\* SELECT policy_id, customer_age, car_type FROM Policies
FetchedRow(p) == <<p.policy_id, p.customer_age, p.car_type>>

BaseLambdaAdditive(c, a) ==
    BaseRate + (IF c = "Sports" THEN BaseRate
                ELSE IF c = "Truck" THEN (BaseRate * 4) \div 10 ELSE 0)
             + (IF a < 25 THEN (BaseRate * 6) \div 10 ELSE 0)

\* base_lambda = 0.12; *= 2.0 (Sports) elif *= 1.4 (Truck); *= 1.6 (age < 25)
BaseLambda(c, a) ==
    LET l0 == BaseRate
        l1 == IF c = "Sports" THEN (l0 * 20) \div 10
              ELSE IF c = "Truck" THEN (l0 * 14) \div 10 ELSE l0
    IN  IF a < 25 THEN (l1 * 16) \div 10 ELSE l1

\* The rows one policy appends to claims_rows: (pid, round(amt, 2), None).
NewClaimRows(p, amts) ==
    [k \in 1..Len(amts) |-> [policy_id |-> p, claim_amount |-> amts[k]]]

ClaimsTableDropLast(rows) ==
    [k \in 1..(Len(rows) - 1) |->
        [claim_id |-> k, policy_id |-> rows[k].policy_id,
         claim_amount |-> rows[k].claim_amount, claim_date |-> "NULL"]]

\* executemany INSERT INTO Claims: claim_id is assigned 1, 2, ... in row order.
ClaimsTable(rows) ==
    [k \in 1..Len(rows) |->
        [claim_id |-> k, policy_id |-> rows[k].policy_id,
         claim_amount |-> rows[k].claim_amount, claim_date |-> "NULL"]]

---------------------------------------------------------------------------
\* Aggregator: FROM Policies p LEFT JOIN Claims c ON p.policy_id = c.policy_id

NullClaim == [claim_id |-> 0, policy_id |-> 0, claim_amount |-> 0, claim_date |-> "NULL"]

MatchingClaims(p) == SelectSeq(Claims, LAMBDA c : c.policy_id = p.policy_id)

InnerJoinRowsOf(p) ==
    LET m == MatchingClaims(p)
    IN  [k \in 1..Len(m) |-> [p |-> p, matched |-> TRUE, c |-> m[k]]]

\* The joined rows of one policy: one per matching claim, or one with c NULL.
LeftJoinRowsOf(p) ==
    LET m == MatchingClaims(p)
    IN  IF m = <<>>
        THEN << [p |-> p, matched |-> FALSE, c |-> NullClaim] >>
        ELSE [k \in 1..Len(m) |-> [p |-> p, matched |-> TRUE, c |-> m[k]]]

RECURSIVE LeftJoin(_)
LeftJoin(ps) ==
    IF ps = <<>> THEN <<>> ELSE LeftJoinRowsOf(Head(ps)) \o LeftJoin(Tail(ps))

\* Aggregates over a group g of joined rows.
MatchedRows(g) == SelectSeq(g, LAMBDA r : r.matched)

\* SUM(c.claim_amount): over the rows whose claim is not NULL.
SumClaimAmount(g) ==
    LET m == MatchedRows(g)
    IN  SqlSum([k \in 1..Len(m) |-> m[k].c.claim_amount])

\* COUNT(c.claim_id)
CountClaimId(g) == Len(MatchedRows(g))

\* SUM(p.premium): over every joined row of the group.
SumPremium(g) == SumSeq([k \in 1..Len(g) |-> g[k].p.premium])

CountRows(g) == Len(g)

\* COUNT(DISTINCT p.policy_id)
CountDistinctPolicyId(g) == Cardinality({g[k].p.policy_id : k \in 1..Len(g)})

---------------------------------------------------------------------------
\* 1) q_loss_by_car

LossByCarRow(ct, g) ==
    [car_type |-> ct,
     num_policies |-> CountDistinctPolicyId(g),
     total_claims |-> Coalesce(SumClaimAmount(g), 0),
     total_premiums |-> SumPremium(g),
     loss_ratio |-> GuardedRatio(Coalesce(SumClaimAmount(g), 0), SumPremium(g)),
     total_claims_count |-> CountClaimId(g)]

\* GROUP BY p.car_type ORDER BY loss_ratio DESC (groups reach the sorter in
\* descending car_type order).
LossByCar ==
    LET J == LeftJoin(Policies)
        group(ct) == SelectSeq(J, LAMBDA r : r.p.car_type = ct)
        keys == SelectSeq(CarTypesDesc, LAMBDA ct : group(ct) # <<>>)
        rows == [k \in 1..Len(keys) |-> LossByCarRow(keys[k], group(keys[k]))]
    IN  StableSortDesc(rows,
            {jk \in (1..Len(rows)) \X (1..Len(rows)) :
                RatioGt(rows[jk[1]].loss_ratio, rows[jk[2]].loss_ratio)})

---------------------------------------------------------------------------
\* Per-policy aggregation: GROUP BY p.policy_id over the left join.

TotalClaimsFirstOnly(g) ==
    LET m == MatchedRows(g)
    IN  IF m = <<>> THEN 0 ELSE m[1].c.claim_amount

\* COALESCE(SUM(c.claim_amount), 0.0)
TotalClaimsAmount(g) == Coalesce(SumClaimAmount(g), 0)

PerPolicyRow(g) ==
    [policy_id |-> g[1].p.policy_id,
     customer_age |-> g[1].p.customer_age,
     car_type |-> g[1].p.car_type,
     premium |-> g[1].p.premium,
     total_claims_amount |-> TotalClaimsAmount(g),
     claims_count |-> CountClaimId(g)]

\* 5) q_per_policy: one row per policy_id of the join, in policy_id order.
PerPolicy ==
    LET J == LeftJoin(Policies)
        keys == Ascending({J[k].p.policy_id : k \in 1..Len(J)})
        group(id) == SelectSeq(J, LAMBDA r : r.p.policy_id = id)
    IN  [k \in 1..Len(keys) |-> PerPolicyRow(group(keys[k]))]

OrderByTotalClaimsAsc(rows) ==
    StableSortDesc(rows,
        {jk \in (1..Len(rows)) \X (1..Len(rows)) :
            rows[jk[1]].total_claims_amount < rows[jk[2]].total_claims_amount})

\* ORDER BY total_claims_amount DESC
OrderByTotalClaimsDesc(rows) ==
    StableSortDesc(rows,
        {jk \in (1..Len(rows)) \X (1..Len(rows)) :
            rows[jk[1]].total_claims_amount > rows[jk[2]].total_claims_amount})

\* LIMIT 10
Limit(rows, n) == SubSeq(rows, 1, Min(n, Len(rows)))

\* 3) q_top_policies
TopPolicies == Limit(OrderByTotalClaimsDesc(PerPolicy), TopLimit)

---------------------------------------------------------------------------
\* 2) q_age_groups

AgeGroupShifted(a) ==
    IF a >= 18 /\ a <= 29 THEN "18-29"
    ELSE IF a >= 31 /\ a <= 39 THEN "30-39"
    ELSE IF a >= 40 /\ a <= 49 THEN "40-49"
    ELSE IF a >= 50 /\ a <= 59 THEN "50-59"
    ELSE IF a >= 60 /\ a <= 69 THEN "60-69"
    ELSE "70+"

\* CASE WHEN customer_age BETWEEN 18 AND 29 THEN '18-29' ... ELSE '70+' END
AgeGroup(a) ==
    IF a >= 18 /\ a <= 29 THEN "18-29"
    ELSE IF a >= 30 /\ a <= 39 THEN "30-39"
    ELSE IF a >= 40 /\ a <= 49 THEN "40-49"
    ELSE IF a >= 50 /\ a <= 59 THEN "50-59"
    ELSE IF a >= 60 /\ a <= 69 THEN "60-69"
    ELSE "70+"

\* The CTE policy_claims: GROUP BY p.policy_id, p.customer_age, p.premium.
PolicyClaims ==
    LET J == LeftJoin(Policies)
        keys == Ascending({J[k].p.policy_id : k \in 1..Len(J)})
        group(id) == SelectSeq(J, LAMBDA r : r.p.policy_id = id)
    IN  [k \in 1..Len(keys) |->
            LET g == group(keys[k])
            IN  [policy_id |-> g[1].p.policy_id,
                 customer_age |-> g[1].p.customer_age,
                 premium |-> g[1].p.premium,
                 claims_count |-> CountClaimId(g),
                 claims_amount |-> Coalesce(SumClaimAmount(g), 0)]]

AgeGroupRow(label, g) ==
    LET amount == SumSeq([k \in 1..Len(g) |-> g[k].claims_amount])
        premium == SumSeq([k \in 1..Len(g) |-> g[k].premium])
    IN  [age_group |-> label,
         num_policies |-> Len(g),
         avg_claims_per_policy |->
             Ratio(SumSeq([k \in 1..Len(g) |-> g[k].claims_count]), Len(g)),
         total_claims_amount |-> amount,
         total_premiums |-> premium,
         loss_ratio |-> GuardedRatio(amount, premium)]

\* GROUP BY age_group ORDER BY age_group
AgeGroups ==
    LET pcs == PolicyClaims
        group(l) == SelectSeq(pcs, LAMBDA r : AgeGroup(r.customer_age) = l)
        keys == SelectSeq(AgeGroupLabels, LAMBDA l : group(l) # <<>>)
    IN  [k \in 1..Len(keys) |-> AgeGroupRow(keys[k], group(keys[k]))]

\* pd.Categorical(..., categories=[the six labels], ordered=True); sort_values
SortByCategory(rows) ==
    LET keys == SelectSeq(AgeGroupLabels,
                          LAMBDA l : \E k \in 1..Len(rows) : rows[k].age_group = l)
        of(l) == SelectSeq(rows, LAMBDA r : r.age_group = l)
    IN  [k \in 1..Len(keys) |-> of(keys[k])[1]]

---------------------------------------------------------------------------
\* 4) q_portfolio_mix: GROUP BY car_type over Policies alone.

PortfolioMix ==
    LET group(ct) == SelectSeq(Policies, LAMBDA p : p.car_type = ct)
        keys == SelectSeq(CarTypesAsc, LAMBDA ct : group(ct) # <<>>)
    IN  [k \in 1..Len(keys) |->
            [car_type |-> keys[k], num_policies |-> Len(group(keys[k]))]]

---------------------------------------------------------------------------
\* Summary metrics (pandas).

\* int(len(claims_rows))
TotalClaimsRecords == Len(claims_rows)

\* per_policy[col].sum()
ColumnSum(col) == SumSeq(col)

\* A float division num / den with no guard.  On an empty frame the sums are
\* those of object columns: the quotient 0 / 0 is NaN or raises.
UnguardedRatios(n, d, empty) ==
    IF d # 0 THEN {Ratio(n, d)}
    ELSE IF empty THEN {RatioNaN, RatioError}
    ELSE IF n = 0 THEN {RatioNaN}
    ELSE {RatioInf}

SummaryRow(q) ==
    [total_policies |-> Len(per_policy),
     total_claims_records |-> TotalClaimsRecords,
     total_claims_amount |->
         ColumnSum([k \in 1..Len(per_policy) |-> per_policy[k].total_claims_amount]),
     average_loss_ratio_overall |-> q]

\* The outcomes of sum(total_claims_amount) / sum(premium).
OverallLossRatios ==
    UnguardedRatios(
        ColumnSum([k \in 1..Len(per_policy) |-> per_policy[k].total_claims_amount]),
        ColumnSum([k \in 1..Len(per_policy) |-> per_policy[k].premium]),
        per_policy = <<>>)

---------------------------------------------------------------------------
\* The run, statement by statement.

\* The drawn arrays of a book of n policies with the draws taken from A, C, P.
Books(n, A, C, P) == [1..n -> A] \X [1..n -> C] \X [1..n -> P]

\* Books the generator can draw: one policy of any age, car type and premium;
\* small books around the age-25 threshold; books larger than the top limit.
GeneratedBooks ==
    Books(1, AgeDomain, CarTypes, PremiumDomain)
    \cup UNION { Books(n, {24, 30}, {"Sedan", "Sports"}, {PremiumMean}) : n \in 2..SmallBook }
    \cup UNION { Books(n, {30}, {"Sedan"}, {PremiumMean}) : n \in TopLimit..BigBook }

\* Tables the aggregation is defined on, beyond what the generator draws: an
\* empty book, and premiums of zero.
GeneralBooks ==
    UNION { Books(n, {24, 30}, {"Sedan", "Sports"}, {0, PremiumClipLow}) : n \in 0..SmallBook }

InitWith(book) ==
    /\ ages = book[1]
    /\ car_types = book[2]
    /\ premiums = book[3]
    /\ Policies = <<>>
    /\ Claims = <<>>
    /\ policy_info = <<>>
    /\ claims_rows = <<>>
    /\ i = 0
    /\ pid = 0
    /\ age = 0
    /\ car = ""
    /\ base_lambda = 0
    /\ n_claims = 0
    /\ loss_by_car = <<>>
    /\ age_group_stats = <<>>
    /\ top_policies = <<>>
    /\ portfolio_mix = <<>>
    /\ per_policy = <<>>
    /\ summary_metrics = <<>>
    /\ pc = "insert_policies"

Init == \E book \in GeneratedBooks : InitWith(book)

InitGeneral == \E book \in GeneralBooks : InitWith(book)

\* policy_rows = [...]; executemany INSERT INTO Policies; commit
InsertPolicies ==
    /\ pc = "insert_policies"
    /\ Policies' = [k \in 1..Len(ages) |-> PolicyRow(k)]
    /\ pc' = "fetch_policies"
    /\ UNCHANGED <<ages, car_types, premiums, Claims, policy_info, claims_rows,
                   i, pid, age, car, base_lambda, n_claims,
                   loss_by_car, age_group_stats, top_policies, portfolio_mix,
                   per_policy, summary_metrics>>

\* cur.execute(SELECT ...); policy_info = cur.fetchall()
FetchPolicyInfo ==
    /\ pc = "fetch_policies"
    /\ policy_info' = [k \in 1..Len(Policies) |-> FetchedRow(Policies[k])]
    /\ i' = 1
    /\ pc' = "claims_loop"
    /\ UNCHANGED <<ages, car_types, premiums, Policies, Claims, claims_rows,
                   pid, age, car, base_lambda, n_claims,
                   loss_by_car, age_group_stats, top_policies, portfolio_mix,
                   per_policy, summary_metrics>>

\* One iteration of: for pid, age, car in policy_info
ClaimsLoop ==
    /\ pc = "claims_loop"
    /\ i <= Len(policy_info)
    /\ pid' = policy_info[i][1]
    /\ age' = policy_info[i][2]
    /\ car' = policy_info[i][3]
    /\ base_lambda' = BaseLambda(car', age')
    /\ \E n \in 0..(MaxClaims - Len(claims_rows)) :
         \E amts \in [1..n -> AmountDomain] :
            /\ n_claims' = n
            /\ claims_rows' = claims_rows \o NewClaimRows(pid', amts)
    /\ i' = i + 1
    /\ UNCHANGED <<ages, car_types, premiums, Policies, Claims, policy_info,
                   loss_by_car, age_group_stats, top_policies, portfolio_mix,
                   per_policy, summary_metrics, pc>>

\* if claims_rows: executemany INSERT INTO Claims; commit
BulkInsert ==
    /\ pc = "claims_loop"
    /\ i > Len(policy_info)
    /\ \/ /\ claims_rows # <<>>
          /\ Claims' = Claims \o ClaimsTable(claims_rows)
       \/ /\ claims_rows = <<>>
          /\ Claims' = Claims
    /\ pc' = "q_loss_by_car"
    /\ UNCHANGED <<ages, car_types, premiums, Policies, policy_info, claims_rows,
                   i, pid, age, car, base_lambda, n_claims,
                   loss_by_car, age_group_stats, top_policies, portfolio_mix,
                   per_policy, summary_metrics>>

RunLossByCar ==
    /\ pc = "q_loss_by_car"
    /\ loss_by_car' = LossByCar
    /\ pc' = "q_age_groups"
    /\ UNCHANGED <<ages, car_types, premiums, Policies, Claims, policy_info,
                   claims_rows, i, pid, age, car, base_lambda, n_claims,
                   age_group_stats, top_policies, portfolio_mix, per_policy,
                   summary_metrics>>

RunAgeGroups ==
    /\ pc = "q_age_groups"
    /\ age_group_stats' = AgeGroups
    /\ pc' = "q_top_policies"
    /\ UNCHANGED <<ages, car_types, premiums, Policies, Claims, policy_info,
                   claims_rows, i, pid, age, car, base_lambda, n_claims,
                   loss_by_car, top_policies, portfolio_mix, per_policy,
                   summary_metrics>>

RunTopPolicies ==
    /\ pc = "q_top_policies"
    /\ top_policies' = TopPolicies
    /\ pc' = "q_portfolio_mix"
    /\ UNCHANGED <<ages, car_types, premiums, Policies, Claims, policy_info,
                   claims_rows, i, pid, age, car, base_lambda, n_claims,
                   loss_by_car, age_group_stats, portfolio_mix, per_policy,
                   summary_metrics>>

RunPortfolioMix ==
    /\ pc = "q_portfolio_mix"
    /\ portfolio_mix' = PortfolioMix
    /\ pc' = "q_per_policy"
    /\ UNCHANGED <<ages, car_types, premiums, Policies, Claims, policy_info,
                   claims_rows, i, pid, age, car, base_lambda, n_claims,
                   loss_by_car, age_group_stats, top_policies, per_policy,
                   summary_metrics>>

RunPerPolicy ==
    /\ pc = "q_per_policy"
    /\ per_policy' = PerPolicy
    /\ pc' = "plots"
    /\ UNCHANGED <<ages, car_types, premiums, Policies, Claims, policy_info,
                   claims_rows, i, pid, age, car, base_lambda, n_claims,
                   loss_by_car, age_group_stats, top_policies, portfolio_mix,
                   summary_metrics>>

\* CSV export and plotting; the line plot re-sorts age_group_stats by category.
ExportAndPlot ==
    /\ pc = "plots"
    /\ age_group_stats' = SortByCategory(age_group_stats)
    /\ pc' = "summary"
    /\ UNCHANGED <<ages, car_types, premiums, Policies, Claims, policy_info,
                   claims_rows, i, pid, age, car, base_lambda, n_claims,
                   loss_by_car, top_policies, portfolio_mix, per_policy,
                   summary_metrics>>

\* summary_metrics = {...}: built whole, or not at all when the division raises.
Summary ==
    /\ pc = "summary"
    /\ \E q \in OverallLossRatios :
         IF q.kind = "ZeroDivisionError"
         THEN /\ summary_metrics' = summary_metrics
              /\ pc' = "raised"
         ELSE /\ summary_metrics' = << SummaryRow(q) >>
              /\ pc' = "done"
    /\ UNCHANGED <<ages, car_types, premiums, Policies, Claims, policy_info,
                   claims_rows, i, pid, age, car, base_lambda, n_claims,
                   loss_by_car, age_group_stats, top_policies, portfolio_mix,
                   per_policy>>

Next ==
    \/ InsertPolicies
    \/ FetchPolicyInfo
    \/ ClaimsLoop
    \/ BulkInsert
    \/ RunLossByCar
    \/ RunAgeGroups
    \/ RunTopPolicies
    \/ RunPortfolioMix
    \/ RunPerPolicy
    \/ ExportAndPlot
    \/ Summary

Spec == Init /\ [][Next]_vars

\* The same run over the general tables.
SpecGeneral == InitGeneral /\ [][Next]_vars

---------------------------------------------------------------------------
\* Properties.

PcOrder ==
    <<"insert_policies", "fetch_policies", "claims_loop", "q_loss_by_car",
      "q_age_groups", "q_top_policies", "q_portfolio_mix", "q_per_policy",
      "plots", "summary", "done", "raised">>

PcRank(l) == CHOOSE k \in 1..Len(PcOrder) : PcOrder[k] = l

\* The statement labelled l has run.
Ran(l) == PcRank(pc) > PcRank(l)

Finished == pc \in {"done", "raised"}

Indices(s) == 1..Len(s)

\* Reference quantities, computed from the two tables directly.
PoliciesOfCarType(ct) == SelectSeq(Policies, LAMBDA p : p.car_type = ct)
PremiumOf(ps) == SumSeq([k \in 1..Len(ps) |-> ps[k].premium])
ClaimsOfPolicies(ps) ==
    SelectSeq(Claims, LAMBDA c : \E k \in 1..Len(ps) : ps[k].policy_id = c.policy_id)
AmountOf(cs) == SumSeq([k \in 1..Len(cs) |-> cs[k].claim_amount])
ClaimsOfPolicy(id) == SelectSeq(Claims, LAMBDA c : c.policy_id = id)
SameQuotient(q, n, d) == q.kind = "value" /\ d # 0 /\ q.num * d = n * q.den

\* C1: every LossByCarType row has total_premiums equal to the summed premium
\* of the policies of its car type, each policy counted once, and loss_ratio
\* equal to that car type's summed claim amount over that summed premium.
C1_LossByCarPremiumOncePerPolicy ==
    Ran("q_loss_by_car") =>
        \A k \in Indices(loss_by_car) :
            LET row == loss_by_car[k]
                ps == PoliciesOfCarType(row.car_type)
            IN  /\ row.total_premiums = PremiumOf(ps)
                /\ SameQuotient(row.loss_ratio, AmountOf(ClaimsOfPolicies(ps)), PremiumOf(ps))

\* C2: PerPolicy has exactly one row per policy, and a policy with no claims
\* has claims_count 0 and total_claims_amount 0.
C2_PerPolicyOuterJoinComplete ==
    Ran("q_per_policy") =>
        /\ Len(per_policy) = Len(Policies)
        /\ \A j \in Indices(Policies) :
              LET rows == SelectSeq(per_policy,
                                    LAMBDA r : r.policy_id = Policies[j].policy_id)
              IN  /\ Len(rows) = 1
                  /\ ClaimsOfPolicy(Policies[j].policy_id) = <<>> =>
                        rows[1].claims_count = 0 /\ rows[1].total_claims_amount = 0

C2_Witness ==
    /\ Ran("q_per_policy")
    /\ Len(Policies) = 2
    /\ ClaimsOfPolicy(1) = <<>>
    /\ Len(ClaimsOfPolicy(2)) = 2

C4_TopPoliciesStrictlyDescending ==
    Ran("q_top_policies") =>
        /\ Len(top_policies) = Min(TopLimit, Len(Policies))
        /\ \A k \in 1..(Len(top_policies) - 1) :
              top_policies[k].total_claims_amount > top_policies[k + 1].total_claims_amount

\* C4 amended: TopPolicies has min(10, policy count) rows, each with a
\* total_claims_amount greater than or equal to the next row's.
C4_TopPoliciesNonIncreasing ==
    Ran("q_top_policies") =>
        /\ Len(top_policies) = Min(TopLimit, Len(Policies))
        /\ \A k \in 1..(Len(top_policies) - 1) :
              top_policies[k].total_claims_amount >= top_policies[k + 1].total_claims_amount

C4_Witness ==
    /\ Ran("q_top_policies")
    /\ Len(Policies) > TopLimit
    /\ Len(top_policies) = TopLimit
    /\ top_policies[1].total_claims_amount > top_policies[2].total_claims_amount
    /\ top_policies[2].total_claims_amount > top_policies[3].total_claims_amount
    /\ top_policies[1].policy_id > top_policies[2].policy_id

\* C5: the summary's total_claims_amount equals the sum of the PerPolicy
\* total_claims_amount column, which equals the sum of claim_amount over Claims.
C5_TotalClaimsAmountSumCheck ==
    pc = "done" =>
        /\ summary_metrics[1].total_claims_amount =
              SumSeq([k \in 1..Len(per_policy) |-> per_policy[k].total_claims_amount])
        /\ summary_metrics[1].total_claims_amount = AmountOf(Claims)

C5_Witness ==
    /\ pc = "done"
    /\ Len(Policies) = 2
    /\ Len(ClaimsOfPolicy(2)) = 2
    /\ summary_metrics[1].total_claims_amount = 500 + SeverityMedian

\* C6: each of the six age buckets' rows counts exactly the policies whose age
\* lies in the bucket's range (no row when there is none), so every policy of
\* age 18..79 is in exactly one bucket, and the num_policies sum to the policy count.
BucketLow == <<18, 30, 40, 50, 60, 70>>
BucketHigh == <<29, 39, 49, 59, 69, 79>>

C6_AgeBucketCoverage ==
    Ran("q_age_groups") =>
        /\ \A b \in Indices(AgeGroupLabels) :
              LET inRange == SelectSeq(Policies,
                     LAMBDA p : p.customer_age >= BucketLow[b] /\ p.customer_age <= BucketHigh[b])
                  rows == SelectSeq(age_group_stats,
                     LAMBDA r : r.age_group = AgeGroupLabels[b])
              IN  IF inRange = <<>> THEN rows = <<>>
                  ELSE Len(rows) = 1 /\ rows[1].num_policies = Len(inRange)
        /\ \A k \in Indices(age_group_stats) :
              \E b \in Indices(AgeGroupLabels) : age_group_stats[k].age_group = AgeGroupLabels[b]
        /\ SumSeq([k \in 1..Len(age_group_stats) |-> age_group_stats[k].num_policies])
              = Len(Policies)

C6_Witness ==
    /\ Ran("q_age_groups")
    /\ Len(Policies) = 2
    /\ Len(age_group_stats) = 2
    /\ age_group_stats[1].age_group = "18-29"
    /\ age_group_stats[2].age_group = "30-39"
    /\ Policies[1].customer_age = 30

\* C7: in every state, every Claims row's policy_id is the policy_id of a
\* Policies row.
C7_NoOrphanClaims ==
    \A k \in Indices(Claims) :
        \E j \in Indices(Policies) : Policies[j].policy_id = Claims[k].policy_id

C7_Witness ==
    /\ Ran("claims_loop")
    /\ Len(Policies) = 2
    /\ Len(Claims) = 2
    /\ Claims[1].policy_id = 1
    /\ Claims[2].policy_id = 2

\* C8: the summary's total_claims_records equals the number of rows of Claims.
C8_TotalClaimsRecordsCountCheck ==
    pc = "done" => summary_metrics[1].total_claims_records = Len(Claims)

C8_Witness ==
    /\ pc = "done"
    /\ Len(Claims) = MaxClaims
    /\ summary_metrics[1].total_claims_records = MaxClaims

\* C9: the rate of the policy the loop has just handled is 0.12 x carFactor x
\* ageFactor (factors in tenths: 20, 14, 10 and 16, 10), for that policy's own
\* car type and age.
CarFactor(c) == IF c = "Sports" THEN 20 ELSE IF c = "Truck" THEN 14 ELSE 10
AgeFactor(a) == IF a < 25 THEN 16 ELSE 10

C9_RateIsProductOfFactors ==
    i > 1 =>
        /\ pid \in Indices(Policies)
        /\ car = Policies[pid].car_type
        /\ age = Policies[pid].customer_age
        /\ base_lambda * 100 = BaseRate * CarFactor(car) * AgeFactor(age)

C9_Witness ==
    /\ i > 1
    /\ car = "Sports"
    /\ age = 24
    /\ base_lambda = 3840

\* C10: LossByCarType and PortfolioMix have the same car types with the same
\* num_policies; the LossByCarType num_policies sum to the policy count and its
\* total_claims_count sum to the number of Claims rows.
C10_LossByCarAgreesWithPortfolioMix ==
    Ran("q_portfolio_mix") =>
        /\ {[car_type |-> loss_by_car[k].car_type,
             num_policies |-> loss_by_car[k].num_policies] : k \in Indices(loss_by_car)}
              = {portfolio_mix[k] : k \in Indices(portfolio_mix)}
        /\ Len(loss_by_car) = Len(portfolio_mix)
        /\ SumSeq([k \in 1..Len(loss_by_car) |-> loss_by_car[k].num_policies])
              = Len(Policies)
        /\ SumSeq([k \in 1..Len(loss_by_car) |-> loss_by_car[k].total_claims_count])
              = Len(Claims)

C10_Witness ==
    /\ Ran("q_portfolio_mix")
    /\ Len(loss_by_car) = 1
    /\ loss_by_car[1].num_policies = 2
    /\ loss_by_car[1].total_claims_count = 2
    /\ Len(ClaimsOfPolicy(1)) = 2

====
